---- MODULE Spec2Model ----
(***************************************************************************)
(* vm-manager: a one-shot CLI that loads a YAML configuration, merges the  *)
(* global and per-VM qemu options, and starts or stops qemu instances.     *)
(*                                                                         *)
(* Text.  A Rust String is modelled as a sequence of atoms.  An atom is a  *)
(* one-character string (" ", "=", ",", ":", "-", "/", ".", "+", a digit)  *)
(* or a run of characters that no operation of the program looks inside    *)
(* ("-nic", "hostfwd", "qemu-system-x86_64", a syllable of an image name). *)
(* Every string operation of the source (starts_with, contains, split,     *)
(* parse, format!, file_stem) is computed on these sequences.              *)
(***************************************************************************)
EXTENDS Integers, Sequences, FiniteSets, TLC

VARIABLES
    config,          \* Config: the deserialized configuration, merged in place
    pc,              \* position of main
    vm_idx,          \* load_from_file: index of the VM being merged
    opt_idx,         \* load_from_file: index inside the current inner loop
    args,            \* parse_args::Arguments
    runner,          \* the QemuRunner built by run_command_start
    running_vms,     \* result of the latest get_list_of_running_vms
    target,          \* run_command_stop: the QemuRunner chosen to be stopped
    command_result,  \* Result<(), String> of the command, as a tag
    exit_code,       \* exit status of the process (-1 while running)
    spawned,         \* argument vector handed to Command::output by start
    signalled,       \* PIDs that received the termination signal
    kill_status,     \* exit status of the `kill` child (-1: not run)
    occupied,        \* environment: TCP ports bound on the host
    unavailable,     \* environment: programs that cannot be executed
    files,           \* environment: regular files, as <<directory, file name>>
    procs,           \* environment: the process table
    starting_port,   \* find_open_port: its argument
    selected_port    \* find_open_port: its local variable

vars == <<config, pc, vm_idx, opt_idx, args, runner, running_vms, target,
          command_result, exit_code, spawned, signalled, kill_status,
          occupied, unavailable, files, procs, starting_port, selected_port>>

(***************************************************************************)
(* Bounds of the model.                                                    *)
(***************************************************************************)
\* find_open_port has no upper bound; the model gives up after this many probes
MaxProbes == 4
\* number of ports, counted from each default port, the environment may have bound
PortSpan == 2
\* number of ports bound when the program starts
MaxOccupied == 1

(***************************************************************************)
(* Program constants.                                                      *)
(***************************************************************************)
DEFAULT_SSH_PORT == 5555
DEFAULT_HTTPS_PORT == 8081

None == <<"None">>
\* the Err of a parse and the non-return of find_open_port, as a number no port has
NoPort == 0 - 1

(***************************************************************************)
(* String operations.                                                      *)
(***************************************************************************)
Digits == <<"0", "1", "2", "3", "4", "5", "6", "7", "8", "9">>

IsDigit(a) == \E i \in 1..10 : Digits[i] = a

DigitValue(a) == (CHOOSE i \in 1..10 : Digits[i] = a) - 1

\* str::starts_with
starts_with(t, p) == Len(t) >= Len(p) /\ SubSeq(t, 1, Len(p)) = p

\* str::contains
contains(t, p) ==
    \E i \in 1..(Len(t) + 1) :
        i + Len(p) - 1 <= Len(t) /\ SubSeq(t, i, i + Len(p) - 1) = p

\* F applied to the value of v, which is computed once
Let(v, F(_)) == CHOOSE r \in {F(x) : x \in {v}} : TRUE

RECURSIVE split(_, _)
\* str::split(char): the pieces between the occurrences of d, empty pieces kept
split(t, d) ==
    IF \A i \in 1..Len(t) : t[i] /= d THEN <<t>>
    ELSE Let(CHOOSE i \in 1..Len(t) : t[i] = d /\ \A j \in 1..(i - 1) : t[j] /= d,
             LAMBDA i : <<SubSeq(t, 1, i - 1)>> \o split(SubSeq(t, i + 1, Len(t)), d))

\* str::split_ascii_whitespace: empty pieces are dropped
split_ascii_whitespace(t) == SelectSeq(split(t, " "), LAMBDA piece : piece /= <<>>)

RECURSIVE join(_, _)
\* [String]::join(sep)
join(ts, sep) ==
    IF ts = <<>> THEN <<>>
    ELSE IF Len(ts) = 1 THEN ts[1]
    ELSE ts[1] \o sep \o join(Tail(ts), sep)

RECURSIVE Concat(_)
Concat(ts) == IF ts = <<>> THEN <<>> ELSE Head(ts) \o Concat(Tail(ts))

RECURSIVE DigitsValue(_, _)
DigitsValue(t, acc) ==
    IF t = <<>> THEN acc ELSE DigitsValue(Tail(t), 10 * acc + DigitValue(Head(t)))

\* str::parse::<usize>: an optional "+" and then one or more digits; NoPort is Err
parse_usize(t) ==
    LET body == IF t /= <<>> /\ Head(t) = "+" THEN Tail(t) ELSE t
    IN  IF body /= <<>> /\ \A i \in 1..Len(body) : IsDigit(body[i])
        THEN DigitsValue(body, 0)
        ELSE NoPort

RECURSIVE format_usize(_)
\* format!("{}", n) of a usize
format_usize(n) ==
    IF n < 10 THEN <<Digits[n + 1]>>
    ELSE Append(format_usize(n \div 10), Digits[(n % 10) + 1])

\* Chars::next_back followed by as_str: the text without its last character.
\* Dropping the last character of a multi-character atom leaves a non-numeric rest.
drop_last_char(t) ==
    IF t = <<>> THEN <<>>
    ELSE IF t[Len(t)] \in {" ", "=", ",", ":", "-", "/", ".", "+"} \/ IsDigit(t[Len(t)])
         THEN SubSeq(t, 1, Len(t) - 1)
         ELSE Append(SubSeq(t, 1, Len(t) - 1), "~")

\* Path::file_name: the last component of the path, <<>> when there is none
file_name(path) ==
    Let(SelectSeq(split(path, "/"), LAMBDA c : c /= <<>>),
        LAMBDA comps : IF comps = <<>> THEN <<>> ELSE comps[Len(comps)])

\* Path::file_stem: the last component without its extension; None for "" and for
\* a path ending in "..".  A leading "." is part of the stem.
file_stem(path) ==
    Let(file_name(path),
        LAMBDA name :
            IF name = <<>> \/ name = <<".", ".">> THEN None
            ELSE Let({i \in 2..Len(name) : name[i] = "."},
                     LAMBDA dots :
                         IF dots = {} THEN name
                         ELSE SubSeq(name, 1,
                                     (CHOOSE i \in dots : \A j \in dots : j <= i) - 1)))

(***************************************************************************)
(* Port probe and allocator (utils.rs).                                    *)
(***************************************************************************)
\* run_shell_command: Ok(output) whenever the program could be executed, whatever
\* its exit status; Err when it could not
run_shell_command(command) == IF command[1] \in unavailable THEN "Err" ELSE "Ok"

\* `lsof -nP -i:port` exits 0 exactly when it lists something; a probe that
\* cannot be executed reports the port as in use.
is_port_in_use(port) ==
    IF run_shell_command(<<<<"lsof">>, <<"-nP">>, <<"-i", ":">> \o format_usize(port)>>) = "Ok"
    THEN port \in occupied
    ELSE TRUE

RECURSIVE find_open_port_from(_, _)
\* the while loop of find_open_port; NoPort when the loop is still running after
\* MaxProbes probes
find_open_port_from(selected, fuel) ==
    IF fuel = 0 THEN NoPort
    ELSE IF is_port_in_use(selected) THEN find_open_port_from(selected + 1, fuel - 1)
    ELSE selected

\* a variant of find_open_port whose first probe is of the port after the starting one
find_open_port_SkipsFirst(starting) == find_open_port_from(starting + 1, MaxProbes)

find_open_port(starting) == find_open_port_from(starting, MaxProbes)

(***************************************************************************)
(* Configuration and the merge pass (config.rs).                           *)
(***************************************************************************)
NIC == <<"-nic">>

\* VMConfig::option_nic_present
option_nic_present(options) ==
    \E i \in 1..Len(options) : starts_with(options[i], NIC)

\* VMConfig::add_qemu_option
add_qemu_option(options, option) ==
    IF starts_with(option, NIC) /\ option_nic_present(options)
    THEN [i \in 1..Len(options) |->
             IF starts_with(options[i], NIC) THEN option ELSE options[i]]
    ELSE Append(options, option)

\* the text format_nic returns for a mapping whose host port is resolved
forward_clause(host_port, vm_port) ==
    <<"hostfwd", "=", "tcp", ":", ":">> \o host_port \o <<"-", ":">> \o vm_port

\* PortMapping::format_nic: the outcome ("ok", "panic", "hang"), the mapping as
\* it is left, and the text returned
format_nic(pm) ==
    IF pm.explicit
    THEN [outcome |-> "ok", pm |-> pm, text |-> forward_clause(pm.host_port, pm.vm_port)]
    ELSE LET requested == parse_usize(pm.host_port)
             found     == find_open_port(requested)
         IN  IF requested = NoPort
             THEN [outcome |-> "panic", pm |-> pm, text |-> <<>>]
             ELSE IF found = NoPort
             THEN [outcome |-> "hang", pm |-> pm, text |-> <<>>]
             ELSE [outcome |-> "ok",
                   pm      |-> [pm EXCEPT !.host_port = format_usize(found)],
                   text    |-> forward_clause(format_usize(found), pm.vm_port)]

\* port_mappings.iter_mut().map(format_nic).collect().join(","): the mappings
\* are formatted in order, so the first one that fails decides the outcome
format_port_mappings(pms) ==
    LET each   == [i \in 1..Len(pms) |-> format_nic(pms[i])]
        failed == {i \in 1..Len(pms) : each[i].outcome /= "ok"}
        first  == CHOOSE i \in failed : \A j \in failed : i <= j
    IN  IF failed /= {}
        THEN [outcome |-> each[first].outcome, pms |-> pms, text |-> <<>>]
        ELSE [outcome |-> "ok",
              pms     |-> [i \in 1..Len(pms) |-> each[i].pm],
              text    |-> join([i \in 1..Len(pms) |-> each[i].text], <<",">>)]

\* the two format! calls of load_from_file that attach the clauses to an option
attach_port_mappings(option, clauses) ==
    IF option = NIC THEN option \o <<" ">> \o clauses
    ELSE option \o <<",">> \o clauses

CurVm == config.vms[vm_idx]

SetCurVm(vm) == config' = [config EXCEPT !.vms[vm_idx] = vm]

\* variables the merge pass never touches
LoadFrame ==
    UNCHANGED <<args, runner, running_vms, target, command_result, exit_code,
                spawned, signalled, kill_status, occupied, unavailable, files,
                procs, starting_port, selected_port>>

\* for vm in &mut config.vms: enter the body for the next VM
LoadEnterVm ==
    /\ pc = "load"
    /\ vm_idx <= Len(config.vms)
    /\ pc' = "load_globals"
    /\ opt_idx' = 1
    /\ UNCHANGED <<config, vm_idx>>
    /\ LoadFrame

\* one iteration of `for option in &config.global_qemu_options`
LoadAddGlobalOption ==
    /\ pc = "load_globals"
    /\ CurVm.use_global_options
    /\ opt_idx <= Len(config.global_qemu_options)
    /\ SetCurVm([CurVm EXCEPT !.options =
                    add_qemu_option(@, config.global_qemu_options[opt_idx])])
    /\ opt_idx' = opt_idx + 1
    /\ UNCHANGED <<pc, vm_idx>>
    /\ LoadFrame

\* the globals loop is over (or use_global_options is false): add a bare -nic
\* when none is present and there is a port mapping
LoadEnsureNic ==
    /\ pc = "load_globals"
    /\ ~CurVm.use_global_options \/ opt_idx > Len(config.global_qemu_options)
    /\ IF ~option_nic_present(CurVm.options) /\ CurVm.port_mappings /= <<>>
       THEN SetCurVm([CurVm EXCEPT !.options = add_qemu_option(@, NIC)])
       ELSE UNCHANGED config
    /\ pc' = "load_forward"
    /\ opt_idx' = 1
    /\ UNCHANGED vm_idx
    /\ LoadFrame

\* one iteration of `for option in &mut vm.options`
LoadForwardOption ==
    /\ pc = "load_forward"
    /\ opt_idx <= Len(CurVm.options)
    /\ LET option == CurVm.options[opt_idx]
           fmt    == format_port_mappings(CurVm.port_mappings)
       IN  IF ~starts_with(option, NIC)
           THEN UNCHANGED <<config, pc>> /\ opt_idx' = opt_idx + 1
           ELSE IF fmt.outcome /= "ok"
           THEN UNCHANGED <<config, opt_idx>> /\ pc' = fmt.outcome
           ELSE /\ SetCurVm([CurVm EXCEPT
                       !.port_mappings = fmt.pms,
                       !.options[opt_idx] = attach_port_mappings(option, fmt.text)])
                /\ opt_idx' = opt_idx + 1
                /\ UNCHANGED pc
    /\ UNCHANGED vm_idx
    /\ LoadFrame

\* the body is over for this VM
LoadLeaveVm ==
    /\ pc = "load_forward"
    /\ opt_idx > Len(CurVm.options)
    /\ pc' = "load"
    /\ vm_idx' = vm_idx + 1
    /\ UNCHANGED <<config, opt_idx>>
    /\ LoadFrame

IMAGES_DIRECTORY == <<"/home/u/.vm-manager/disk-images">>

\* after the loop: default the images directory and return the configuration
LoadReturn ==
    /\ pc = "load"
    /\ vm_idx > Len(config.vms)
    /\ config' = [config EXCEPT !.base_images_directory =
                     IF @ = None THEN IMAGES_DIRECTORY ELSE @]
    /\ pc' = "loaded"
    /\ UNCHANGED <<vm_idx, opt_idx>>
    /\ LoadFrame

LoadNext ==
    \/ LoadEnterVm
    \/ LoadAddGlobalOption
    \/ LoadEnsureNic
    \/ LoadForwardOption
    \/ LoadLeaveVm
    \/ LoadReturn

(***************************************************************************)
(* Image files (utils.rs).                                                 *)
(***************************************************************************)
\* Config::get_images_directory
get_images_directory(c) ==
    IF c.base_images_directory /= None THEN c.base_images_directory
    ELSE IMAGES_DIRECTORY

\* get_list_of_images(WorkingImages): one entry per regular file of the images
\* directory, its file stem, the stem "nohup" left out.  The entries are kept
\* with their file so that two files with one stem stay two entries.
get_list_of_images(c) ==
    {f \in files : f[1] = get_images_directory(c) /\ file_stem(f[2]) /= <<"nohup">>}

\* Path::is_file
is_file(path) == \E f \in files : f[1] \o <<"/">> \o f[2] = path

\* get_file_from_image_name, from `let proposed_path` on: Some(path) or None
proposed_path(real_image_name) ==
    Let(IMAGES_DIRECTORY \o <<"/">> \o real_image_name \o <<".", "img">>,
        LAMBDA path : IF ~is_file(path) THEN None ELSE path)

\* get_file_from_image_name: Some(path) or None
get_file_from_image_name(image_name, c) ==
    Let({f \in get_list_of_images(c) : contains(file_stem(f[2]), image_name)},
        LAMBDA found :
            IF found = {} \/ Cardinality(found) > 1 THEN None
            ELSE proposed_path(file_stem((CHOOSE f \in found : TRUE)[2])))

\* Config::get_vm_config_with_image_name: the first VM whose image name contains
\* the given text, as <<vm>>, or <<>> for None
get_vm_config_with_image_name(c, image_name) ==
    LET hits == {i \in 1..Len(c.vms) : contains(c.vms[i].image_name, image_name)}
    IN  IF hits = {} THEN <<>>
        ELSE <<c.vms[CHOOSE i \in hits : \A j \in hits : i <= j]>>

(***************************************************************************)
(* QemuRunner (qemu_runner.rs).                                            *)
(***************************************************************************)
NoPid == 0 - 1
\* the value of a QemuRunner variable that holds no runner yet
NoRunner ==
    [daemonize |-> FALSE, ssh_port |-> NoPort, https_port |-> NoPort,
     specified_ssh_port |-> FALSE, specified_https_port |-> FALSE,
     image |-> <<>>, pid |-> NoPid, vm_config |-> <<>>]
QEMU == <<"qemu-system-x86_64">>
NOHUP == <<"nohup">>

\* QemuRunner::default; the two ports are NoPort when find_open_port does not return
QemuRunner_default ==
    [daemonize |-> TRUE,
     ssh_port |-> find_open_port(DEFAULT_SSH_PORT),
     https_port |-> find_open_port(DEFAULT_HTTPS_PORT),
     specified_ssh_port |-> FALSE,
     specified_https_port |-> FALSE,
     image |-> <<>>,
     pid |-> NoPid,
     vm_config |-> <<>>]

\* QemuRunner::new
QemuRunner_new(ssh_port, https_port, image_name, pid, c) ==
    [daemonize |-> TRUE,
     ssh_port |-> ssh_port,
     https_port |-> https_port,
     specified_ssh_port |-> FALSE,
     specified_https_port |-> FALSE,
     image |-> Let(get_file_from_image_name(image_name, c),
                   LAMBDA image : IF image /= None THEN image ELSE <<>>),
     pid |-> pid,
     vm_config |-> <<>>]

\* QemuRunner::image_name
image_name(r) ==
    Let(file_stem(r.image),
        LAMBDA fstem : IF fstem /= None THEN fstem ELSE <<"Can't get image name">>)

\* QemuRunOption::get_opt_list
get_opt_list(option) == split(option, " ")

\* the loop of start_with_vm_config that appends the VM's options
vm_option_args(options) ==
    Concat([i \in 1..Len(options) |->
               IF ~starts_with(options[i], <<"-daemonize">>)
                  /\ ~starts_with(options[i], <<"-nographic">>)
               THEN get_opt_list(options[i])
               ELSE <<>>])

\* start_with_vm_config: the argument vector, given the image path
vm_config_args(vm, image_path) ==
    (IF vm.daemonize THEN <<NOHUP>> ELSE <<>>)
    \o <<QEMU,
         IF vm.daemonize THEN <<"-daemonize">> ELSE <<"-nographic">>,
         <<"-drive">>,
         <<"file", "=">> \o image_path>>
    \o vm_option_args(vm.options)

\* start, ad hoc branch: the network-interface argument
adhoc_nic_args(ssh_port, https_port) ==
    <<"user", ",", "model", "=", "virtio", ",">>
    \o forward_clause(format_usize(ssh_port), <<"2", "2">>) \o <<",">>
    \o forward_clause(format_usize(https_port), <<"4", "4", "3">>)

\* start, ad hoc branch: the argument vector
adhoc_args(daemonize, image, ssh_port, https_port) ==
    (IF daemonize THEN <<NOHUP>> ELSE <<>>)
    \o <<QEMU,
         IF daemonize THEN <<"-daemonize">> ELSE <<"-nographic">>,
         <<"-drive">>,
         <<"file", "=">> \o image,
         <<"-m">>, <<"8", "G">>,
         <<"-smp">>, <<"4">>,
         <<"-accel">>, <<"kvm">>,
         <<"-accel">>, <<"tcg">>,
         <<"-cpu">>, <<"host">>,
         <<"-vnc">>, <<"none">>,
         NIC, adhoc_nic_args(ssh_port, https_port)>>

\* a variant of the checks of start that leaves out the HTTPS port
port_conflict_SshOnly(r) ==
    IF r.specified_ssh_port /\ is_port_in_use(r.ssh_port) THEN "ErrSshPortInUse"
    ELSE "Ok"

\* a variant of the checks of start that probes the two ports whoever chose them
port_conflict_Rechecks(r) ==
    IF is_port_in_use(r.ssh_port) THEN "ErrSshPortInUse"
    ELSE IF is_port_in_use(r.https_port) THEN "ErrHttpsPortInUse"
    ELSE "Ok"

\* start, ad hoc branch: the two checks of the ports the user specified
port_conflict(r) ==
    IF r.specified_ssh_port /\ is_port_in_use(r.ssh_port) THEN "ErrSshPortInUse"
    ELSE IF r.specified_https_port /\ is_port_in_use(r.https_port) THEN "ErrHttpsPortInUse"
    ELSE "Ok"

\* run_shell_command(&args)?; Ok(())
spawn(argv) ==
    [result |-> IF run_shell_command(argv) = "Ok" THEN "Ok" ELSE "ErrSpawn",
     argv   |-> argv]

\* start_with_vm_config: the Result, and the argument vector handed to
\* run_shell_command (<<>> when none is)
start_with_vm_config(r, c) ==
    Let(get_file_from_image_name(r.vm_config[1].image_name, c),
        LAMBDA image_path :
            IF image_path = None
            THEN [result |-> "ErrImageNotFound", argv |-> <<>>]
            ELSE spawn(vm_config_args(r.vm_config[1], image_path)))

\* QemuRunner::start: the Result, and the argument vector handed to
\* run_shell_command (<<>> when none is)
start(r, c) ==
    IF r.vm_config /= <<>> THEN start_with_vm_config(r, c)
    ELSE Let(port_conflict(r),
             LAMBDA conflict :
                 IF conflict /= "Ok" THEN [result |-> conflict, argv |-> <<>>]
                 ELSE IF ~is_file(r.image)
                 THEN [result |-> "ErrImageMissing", argv |-> <<>>]
                 ELSE spawn(adhoc_args(r.daemonize, r.image, r.ssh_port, r.https_port)))

(***************************************************************************)
(* Running-instance scanner (utils.rs).                                    *)
(***************************************************************************)
\* one line of `ps ax`: PID, TTY, STAT, TIME and the command line
ps_line(p) ==
    join(<<format_usize(p.pid), <<"?">>, <<"Sl">>, <<"0", ":", "0", "0">>>> \o p.argv,
         <<" ">>)

\* the loop body of get_list_of_running_vms from `let port_data` on
scan_ports(pid, filename, port_data, c) ==
    IF Len(port_data) < 4 THEN [kind |-> "panic"]
    ELSE Let(<<split(port_data[3], ":"), split(port_data[4], ":")>>,
             LAMBDA data :
                 IF Len(data[1]) < 3 \/ Len(data[2]) < 3 THEN [kind |-> "panic"]
                 ELSE Let(<<parse_usize(drop_last_char(data[1][3])),
                            parse_usize(drop_last_char(data[2][3]))>>,
                          LAMBDA port :
                              IF port[1] = NoPort \/ port[2] = NoPort
                              THEN [kind |-> "panic"]
                              ELSE [kind |-> "vm",
                                    vm   |-> QemuRunner_new(port[1], port[2],
                                                            filename, pid, c)]))

\* the loop body from `if let Some(fname)` on, given strings[7].split('=')
scan_drive(strings, drive, c) ==
    IF Len(drive) < 2 THEN [kind |-> "skip"]
    ELSE Let(<<file_stem(drive[2]), parse_usize(strings[1])>>,
             LAMBDA got :
                 IF got[1] = None THEN [kind |-> "panic"]
                 ELSE IF got[2] = NoPort THEN [kind |-> "panic"]
                 ELSE IF Len(strings) < 22 THEN [kind |-> "panic"]
                 ELSE scan_ports(got[2], got[1], split(strings[22], ","), c))

\* the body of the loop of get_list_of_running_vms for the tokens of one line that
\* names the hypervisor: "skip" (continue), "panic" (an index out of bounds, or
\* an unwrap of None or of Err) or "vm" with the QemuRunner pushed.  strings[7]
\* and strings[21] of the source are strings[8] and strings[22] here.
scan_tokens(strings, c) ==
    IF Len(strings) < 8 THEN [kind |-> "panic"]
    ELSE scan_drive(strings, split(strings[8], "="), c)

\* the loop body for one line: `line.split_ascii_whitespace().collect()` and the rest
scan_entry(line, c) ==
    Let(split_ascii_whitespace(line), LAMBDA strings : scan_tokens(strings, c))

\* get_list_of_running_vms: the outcome ("ok" or "panic") and the vector returned
get_list_of_running_vms(c) ==
    IF run_shell_command(<<<<"ps">>, <<"ax">>>>) /= "Ok"
    THEN [outcome |-> "ok", vms |-> <<>>]
    ELSE Let(SelectSeq([i \in 1..Len(procs) |-> ps_line(procs[i])],
                       LAMBDA l : contains(l, QEMU)),
             LAMBDA lines :
                 Let([i \in 1..Len(lines) |-> scan_entry(lines[i], c)],
                     LAMBDA entries :
                         IF \E i \in 1..Len(entries) : entries[i].kind = "panic"
                         THEN [outcome |-> "panic", vms |-> <<>>]
                         ELSE [outcome |-> "ok",
                               vms |-> Let(SelectSeq(entries, LAMBDA e : e.kind = "vm"),
                                           LAMBDA pushed :
                                               [i \in 1..Len(pushed) |-> pushed[i].vm])]))

(***************************************************************************)
(* main, run_command_start and run_command_stop (main.rs).                 *)
(***************************************************************************)
\* the exit status of a Rust process that panicked
PANIC_EXIT == 101
\* exit_code while the process is running, kill_status while `kill` has not run
NotExited == 0 - 1

\* QemuRunner::stop: the Result
stop(r) ==
    IF r.pid /= NoPid
    THEN IF run_shell_command(<<<<"kill">>, format_usize(r.pid)>>) = "Ok"
         THEN "Ok" ELSE "ErrKill"
    ELSE "ErrNoPid"

\* variables no step of main touches: the files, the programs installed, and
\* the state of the stand-alone find_open_port loop
MainFrame == UNCHANGED <<config, vm_idx, opt_idx, args, unavailable, files,
                         starting_port, selected_port>>

\* main, `if args.list_running_vms`
MainListRunningVms ==
    /\ pc = "loaded"
    /\ IF ~args.list_running_vms
       THEN pc' = "dispatch" /\ UNCHANGED <<running_vms, exit_code>>
       ELSE \E scan \in {get_list_of_running_vms(config)} :
                IF scan.outcome = "panic"
                THEN pc' = "panic" /\ exit_code' = PANIC_EXIT /\ UNCHANGED running_vms
                ELSE pc' = "dispatch" /\ running_vms' = scan.vms /\ UNCHANGED exit_code
    /\ UNCHANGED <<runner, target, command_result, spawned, signalled,
                   kill_status, occupied, procs>>
    /\ MainFrame

\* main, `_ => Ok(())`: no subcommand
RunNoCommand ==
    /\ pc = "dispatch"
    /\ args.command = "None"
    /\ command_result' = "Ok"
    /\ pc' = "report"
    /\ UNCHANGED <<runner, running_vms, target, exit_code, spawned, signalled,
                   kill_status, occupied, procs>>
    /\ MainFrame

\* run_command_start up to QemuRunner::default()
RunCommandStartDefault ==
    /\ pc = "dispatch"
    /\ args.command = "Start"
    /\ IF args.image = None
       THEN /\ command_result' = "ErrNoImageProvided"
            /\ pc' = "report"
            /\ UNCHANGED runner
       ELSE \E default \in {QemuRunner_default} :
                /\ runner' = default
                /\ pc' = IF NoPort \in {default.ssh_port, default.https_port}
                         THEN "hang" ELSE "start_setup"
                /\ UNCHANGED command_result
    /\ UNCHANGED <<running_vms, target, exit_code, spawned, signalled,
                   kill_status, occupied, procs>>
    /\ MainFrame

\* QemuRunner::set_ssh_port, when the command line gives a port
set_ssh_port(r, port) ==
    IF port = NoPort THEN r
    ELSE [r EXCEPT !.ssh_port = port, !.specified_ssh_port = TRUE]

\* QemuRunner::set_https_port, when the command line gives a port
set_https_port(r, port) ==
    IF port = NoPort THEN r
    ELSE [r EXCEPT !.https_port = port, !.specified_https_port = TRUE]

\* run_command_start from get_file_from_image_name to just before runner.start
RunCommandStartSetup ==
    /\ pc = "start_setup"
    /\ \E pathbuf \in {get_file_from_image_name(args.image, config)},
          vm \in {get_vm_config_with_image_name(config, args.image)} :
           IF pathbuf = None
           THEN /\ command_result' = "ErrNoUniqueImage"
                /\ pc' = "report"
                /\ UNCHANGED runner
           ELSE /\ runner' =
                       IF vm /= <<>>
                       THEN [runner EXCEPT !.image = pathbuf, !.vm_config = vm]
                       ELSE [set_https_port(set_ssh_port(runner, args.ssh_port),
                                            args.https_port)
                                EXCEPT !.image = pathbuf,
                                       !.daemonize = ~args.foreground]
                /\ pc' = "start_run"
                /\ UNCHANGED command_result
    /\ UNCHANGED <<running_vms, target, exit_code, spawned, signalled,
                   kill_status, occupied, procs>>
    /\ MainFrame

\* run_command_start, `runner.start(config)?`
RunCommandStartRun ==
    /\ pc = "start_run"
    /\ \E started \in {start(runner, config)} :
           /\ command_result' = started.result
           /\ spawned' = started.argv
    /\ pc' = "report"
    /\ UNCHANGED <<runner, running_vms, target, exit_code, signalled,
                   kill_status, occupied, procs>>
    /\ MainFrame

\* run_command_stop, the first scan and the "No VMs running." return
RunCommandStopScan ==
    /\ pc = "dispatch"
    /\ args.command = "Stop"
    /\ \E scan \in {get_list_of_running_vms(config)} :
           IF scan.outcome = "panic"
           THEN pc' = "panic" /\ exit_code' = PANIC_EXIT /\ UNCHANGED command_result
           ELSE IF scan.vms = <<>>
           THEN pc' = "report" /\ command_result' = "ErrNoVMsRunning" /\ UNCHANGED exit_code
           ELSE pc' = "stop_find" /\ UNCHANGED <<command_result, exit_code>>
    /\ UNCHANGED <<runner, running_vms, target, spawned, signalled, kill_status,
                   occupied, procs>>
    /\ MainFrame

\* a variant of the loop that keeps the last instance whose image name matches
first_matching_vm_Last(vms, name) ==
    Let({i \in 1..Len(vms) : contains(image_name(vms[i]), name)},
        LAMBDA hits : IF hits = {} THEN 0
                      ELSE CHOOSE i \in hits : \A j \in hits : j <= i)

\* run_command_stop, the loop `for vm in vms`: the index of the first instance
\* whose image name contains the text, 0 when there is none
first_matching_vm(vms, name) ==
    Let({i \in 1..Len(vms) : contains(image_name(vms[i]), name)},
        LAMBDA hits : IF hits = {} THEN 0
                      ELSE CHOOSE i \in hits : \A j \in hits : i <= j)

\* run_command_stop, the second scan and the choice of the instance to stop
RunCommandStopChoose ==
    \E scan \in {get_list_of_running_vms(config)} :
        IF scan.outcome = "panic"
        THEN /\ pc' = "panic"
             /\ exit_code' = PANIC_EXIT
             /\ UNCHANGED <<running_vms, target, command_result>>
        ELSE \E first \in {first_matching_vm(scan.vms, args.image)} :
                 /\ running_vms' = scan.vms
                 /\ UNCHANGED exit_code
                 /\ IF first = 0
                    THEN /\ command_result' = "ErrNoVMMatching"
                         /\ pc' = "report"
                         /\ UNCHANGED target
                    ELSE /\ target' = scan.vms[first]
                         /\ pc' = "stop_kill"
                         /\ UNCHANGED command_result

\* run_command_stop, from `if let Some(image_name) = image` to the choice of the
\* instance to stop
RunCommandStopFind ==
    /\ pc = "stop_find"
    /\ IF args.image = None
       THEN /\ command_result' = "ErrNoImageProvided"
            /\ pc' = "report"
            /\ UNCHANGED <<running_vms, target, exit_code>>
       ELSE IF ~\E f \in get_list_of_images(config) :
                    contains(file_stem(f[2]), args.image)
       THEN /\ command_result' = "ErrNoImageMatching"
            /\ pc' = "report"
            /\ UNCHANGED <<running_vms, target, exit_code>>
       ELSE RunCommandStopChoose
    /\ UNCHANGED <<runner, spawned, signalled, kill_status, occupied, procs>>
    /\ MainFrame

\* run_command_stop, `return vm.stop()`.  The `kill` child delivers the signal
\* and exits 0 when the PID is in the process table, and exits 1 when it is not.
RunCommandStopKill ==
    /\ pc = "stop_kill"
    /\ \E stopped \in {stop(target)} :
           /\ command_result' = stopped
           /\ IF stopped = "Ok"
              THEN IF \E i \in 1..Len(procs) : procs[i].pid = target.pid
                   THEN signalled' = signalled \cup {target.pid} /\ kill_status' = 0
                   ELSE kill_status' = 1 /\ UNCHANGED signalled
              ELSE UNCHANGED <<signalled, kill_status>>
    /\ pc' = "report"
    /\ UNCHANGED <<runner, running_vms, target, exit_code, spawned, occupied, procs>>
    /\ MainFrame

\* a variant of the end of main that exits 0 whatever the command returned
MainReport_ExitsZero ==
    /\ pc = "report"
    /\ pc' = "exit"
    /\ exit_code' = 0
    /\ UNCHANGED <<runner, running_vms, target, command_result, spawned,
                   signalled, kill_status, occupied, procs>>
    /\ MainFrame

\* main, from `if let Err(e) = command_result` to the exit
MainReport ==
    /\ pc = "report"
    /\ IF command_result = "Ok"
       THEN pc' = "exit" /\ exit_code' = 0
       ELSE IF args.command = "Stop" /\ get_list_of_running_vms(config).outcome = "panic"
       THEN pc' = "panic" /\ exit_code' = PANIC_EXIT
       ELSE pc' = "exit" /\ exit_code' = 1
    /\ UNCHANGED <<runner, running_vms, target, command_result, spawned,
                   signalled, kill_status, occupied, procs>>
    /\ MainFrame

(***************************************************************************)
(* The environment: nothing is locked between a check and its use.         *)
(***************************************************************************)
PortUniverse ==
    (DEFAULT_SSH_PORT..(DEFAULT_SSH_PORT + PortSpan - 1))
    \cup (DEFAULT_HTTPS_PORT..(DEFAULT_HTTPS_PORT + PortSpan - 1))

\* another process binds a port between QemuRunner::default and runner.start
EnvBindPort ==
    /\ pc \in {"start_setup", "start_run"}
    /\ Cardinality(occupied) <= MaxOccupied
    /\ \E p \in PortUniverse \ occupied : occupied' = occupied \cup {p}
    /\ UNCHANGED <<config, pc, vm_idx, opt_idx, args, runner, running_vms, target,
                   command_result, exit_code, spawned, signalled, kill_status,
                   unavailable, files, procs, starting_port, selected_port>>

\* a process of the process table exits while a stop command is running
EnvProcessExits ==
    /\ pc \in {"stop_find", "stop_kill", "report"}
    /\ args.command = "Stop"
    /\ \E i \in 1..Len(procs) :
           procs' = SubSeq(procs, 1, i - 1) \o SubSeq(procs, i + 1, Len(procs))
    /\ UNCHANGED <<config, pc, vm_idx, opt_idx, args, runner, running_vms, target,
                   command_result, exit_code, spawned, signalled, kill_status,
                   occupied, unavailable, files, starting_port, selected_port>>

(***************************************************************************)
(* find_open_port on its own, one probe per step.                          *)
(***************************************************************************)
\* one evaluation of the loop condition of find_open_port
FindOpenPortProbe ==
    /\ pc = "find_open_port"
    /\ selected_port - starting_port < MaxProbes
    /\ IF is_port_in_use(selected_port)
       THEN selected_port' = selected_port + 1 /\ UNCHANGED pc
       ELSE pc' = "found" /\ UNCHANGED selected_port
    /\ UNCHANGED <<config, vm_idx, opt_idx, args, runner, running_vms, target,
                   command_result, exit_code, spawned, signalled, kill_status,
                   occupied, unavailable, files, procs, starting_port>>

(***************************************************************************)
(* Inputs.                                                                 *)
(***************************************************************************)
\* length of a VM's option list and of its port-mapping list in the file
MaxOptions == 2
MaxMappings == 2

OptM == <<"-m", " ", "8", "G">>
NicUser == <<"-nic", " ", "user">>
NicTap == <<"-nic", " ", "tap">>
NicVirtio == <<"-nic", " ", "user", ",", "model", "=", "virtio">>

Ubuntu == <<"ubu", "ntu">>
Ubuntu22 == <<"ubu", "ntu", "-", "2", "2">>
Web == <<"web">>
Img(stem) == stem \o <<".", "img">>
CustomDirectory == <<"/srv/images">>

SeqsUpTo(S, n) == UNION {[1..k -> S] : k \in 0..n}

Mappings ==
    {[host_port |-> <<"5", "5", "5", "5">>, vm_port |-> <<"2", "2">>, explicit |-> FALSE],
     [host_port |-> <<"5", "5", "5", "6">>, vm_port |-> <<"4", "4", "3">>, explicit |-> TRUE],
     [host_port |-> <<"x">>, vm_port |-> <<"8", "0">>, explicit |-> FALSE]}

GlobalLists == {<<>>, <<OptM>>, <<OptM, NicUser>>, <<NicUser, NicVirtio>>}

LoadVMs ==
    [image_name : {Web},
     port_mappings : SeqsUpTo(Mappings, MaxMappings),
     options : SeqsUpTo({OptM, NIC, NicTap}, MaxOptions),
     use_global_options : BOOLEAN,
     daemonize : {TRUE}]

SecondVMs ==
    {[image_name |-> Ubuntu,
      port_mappings |-> <<[host_port |-> <<"0", "5", "5", "5", "5">>,
                           vm_port |-> <<"2", "2">>, explicit |-> FALSE]>>,
      options |-> opts, use_global_options |-> TRUE, daemonize |-> FALSE]
     : opts \in {<<>>, <<NicTap, NicUser>>}}

NoArgs ==
    [command |-> "None", image |-> None, ssh_port |-> NoPort, https_port |-> NoPort,
     foreground |-> FALSE, list_running_vms |-> FALSE]

OccupiedSets == {s \in SUBSET PortUniverse : Cardinality(s) <= MaxOccupied}

\* the part of the state main has not written yet
InitMain ==
    /\ pc = "load"
    /\ vm_idx = 1
    /\ opt_idx = 1
    /\ runner = NoRunner
    /\ running_vms = <<>>
    /\ target = NoRunner
    /\ command_result = "None"
    /\ exit_code = NotExited
    /\ spawned = <<>>
    /\ signalled = {}
    /\ kill_status = NotExited
    /\ starting_port = NoPort
    /\ selected_port = NoPort

(***************************************************************************)
(* SpecLoad: Config::load_from_file over configuration files.              *)
(***************************************************************************)
InitLoad ==
    /\ InitMain
    /\ \E vm \in LoadVMs, globals \in GlobalLists, more \in SeqsUpTo(SecondVMs, 1) :
           config = [base_images_directory |-> None,
                     global_qemu_options |-> globals,
                     vms |-> <<vm>> \o more]
    /\ args = NoArgs
    /\ occupied \in {s \in OccupiedSets : \A p \in s : p < DEFAULT_HTTPS_PORT}
    /\ unavailable \in {{}, {<<"lsof">>}}
    /\ files = {}
    /\ procs = <<>>

SpecLoad == InitLoad /\ [][LoadNext]_vars

(***************************************************************************)
(* SpecPort: find_open_port for every starting port and occupancy.         *)
(***************************************************************************)
InitPort ==
    /\ pc = "find_open_port"
    /\ starting_port \in PortUniverse
    /\ selected_port = starting_port
    /\ occupied \in SUBSET PortUniverse
    /\ unavailable \in {{}, {<<"lsof">>}}
    /\ config = [base_images_directory |-> None, global_qemu_options |-> <<>>,
                 vms |-> <<>>]
    /\ args = NoArgs
    /\ vm_idx = 1
    /\ opt_idx = 1
    /\ runner = NoRunner
    /\ running_vms = <<>>
    /\ target = NoRunner
    /\ command_result = "None"
    /\ exit_code = NotExited
    /\ spawned = <<>>
    /\ signalled = {}
    /\ kill_status = NotExited
    /\ files = {}
    /\ procs = <<>>

SpecPort == InitPort /\ [][FindOpenPortProbe]_vars

\* the loop of find_open_port is sequential code: while its condition can be
\* evaluated, it is evaluated
SpecPortFair == SpecPort /\ WF_vars(FindOpenPortProbe)

(***************************************************************************)
(* SpecScan: `vm-manager -r` over process tables and image directories.    *)
(***************************************************************************)
ImagePath(stem) == IMAGES_DIRECTORY \o <<"/">> \o Img(stem)

\* the command line of a hypervisor started by this tool: nohup execs its command
CommandLine(argv) == IF argv /= <<>> /\ Head(argv) = NOHUP THEN Tail(argv) ELSE argv

BareNicVm ==
    [image_name |-> Web,
     port_mappings |-> <<>>,
     options |-> <<NIC \o <<" ">> \o forward_clause(<<"5", "5", "5", "7">>, <<"2", "2">>)>>,
     use_global_options |-> FALSE,
     daemonize |-> TRUE]

\* processes that may be running: two instances started ad hoc by this tool, an
\* instance started from a VM configuration, a hypervisor started by hand whose
\* fourth argument has no "=", a grep for the hypervisor's name, a shell, and a
\* third ad hoc instance
AllProcs ==
    <<[pid |-> 101, argv |-> CommandLine(adhoc_args(TRUE, ImagePath(Ubuntu), 5555, 8081))],
      [pid |-> 102, argv |-> CommandLine(adhoc_args(FALSE, ImagePath(Web), 5556, 8082))],
      [pid |-> 103, argv |-> CommandLine(vm_config_args(BareNicVm, ImagePath(Web)))],
      [pid |-> 104, argv |-> <<QEMU, <<"-m">>, <<"8", "G">>, <<"-snapshot">>, <<"-hda">>,
                               <<"/", "tmp", "/", "disk", ".", "img">>>>],
      [pid |-> 105, argv |-> <<<<"grep">>, QEMU>>],
      [pid |-> 106, argv |-> <<<<"bash">>>>],
      [pid |-> 107, argv |-> CommandLine(adhoc_args(TRUE, ImagePath(Ubuntu22), 5557, 8083))]>>

ProcessTables ==
    {SelectSeq(AllProcs, LAMBDA p : p.pid \in alive) :
        alive \in SUBSET {AllProcs[i].pid : i \in 1..Len(AllProcs)}}

\* image directories: the default one and a configured one
FileSets ==
    {{},
     {<<IMAGES_DIRECTORY, Img(Ubuntu)>>, <<IMAGES_DIRECTORY, Img(Web)>>},
     {<<IMAGES_DIRECTORY, Img(Ubuntu)>>, <<IMAGES_DIRECTORY, Img(Ubuntu22)>>,
      <<IMAGES_DIRECTORY, Img(Web)>>},
     {<<IMAGES_DIRECTORY, Img(Ubuntu22)>>, <<IMAGES_DIRECTORY, <<"nohup", ".", "out">>>>},
     {<<CustomDirectory, Img(Ubuntu)>>, <<CustomDirectory, Img(Web)>>,
      <<IMAGES_DIRECTORY, Img(Web)>>}}

InitScan ==
    /\ InitMain
    /\ config \in [base_images_directory : {None, CustomDirectory},
                   global_qemu_options : {<<>>},
                   vms : {<<>>}]
    /\ args = [NoArgs EXCEPT !.list_running_vms = TRUE]
    /\ occupied = {}
    /\ unavailable \in {{}, {<<"ps">>}}
    /\ files \in FileSets
    /\ procs \in ProcessTables

ScanNext ==
    \/ LoadReturn
    \/ MainListRunningVms
    \/ RunNoCommand
    \/ MainReport

SpecScan == InitScan /\ [][ScanNext]_vars

(***************************************************************************)
(* Spec: one run of the program, a start or a stop command.                *)
(***************************************************************************)
\* one option text that holds several related options
OptSmpDaemonize == <<"-smp", " ", "4", " ", "-daemonize">>

\* the VM configurations of the start runs
StartVMs ==
    [image_name : {Web},
     port_mappings : {<<>>} \cup {<<m>> : m \in {n \in Mappings : n.host_port /= <<"x">>}},
     options : {<<>>, <<OptM, NicVirtio>>, <<<<"-nographic">>, OptSmpDaemonize>>},
     use_global_options : {TRUE},
     daemonize : BOOLEAN]

StartArgs ==
    [command : {"Start"},
     image : {None, <<"ubu">>, Web},
     ssh_port : {NoPort, DEFAULT_SSH_PORT},
     https_port : {NoPort, DEFAULT_HTTPS_PORT + 1},
     foreground : BOOLEAN,
     list_running_vms : {FALSE}]

\* a file with two VM configurations for images whose names both contain "web":
\* the image of the first one is not on disk
WebOldVMs ==
    <<[image_name |-> <<"web", "-", "old">>, port_mappings |-> <<>>, options |-> <<>>,
       use_global_options |-> FALSE, daemonize |-> FALSE],
      [image_name |-> Web, port_mappings |-> <<>>, options |-> <<>>,
       use_global_options |-> FALSE, daemonize |-> FALSE]>>

\* the images directory the file configures, with the files on disk: the
\* default directory, or a configured one next to the default one
StartDirectories ==
    {<<None, fs>> : fs \in {gs \in FileSets : \A f \in gs : f[1] = IMAGES_DIRECTORY} \ {{}}}
    \cup {<<CustomDirectory, fs>> : fs \in {gs \in FileSets :
                                              \E f \in gs : f[1] = CustomDirectory}}

InitStart ==
    /\ InitMain
    /\ \E d \in StartDirectories :
           /\ config \in [base_images_directory : {d[1]},
                          global_qemu_options : {<<OptM>>},
                          vms : {<<>>, WebOldVMs} \cup {<<vm>> : vm \in StartVMs}]
           /\ files = d[2]
    /\ args \in StartArgs
    /\ occupied \in OccupiedSets
    /\ unavailable \in {{}, {<<"lsof">>}, {QEMU}}
    /\ procs = <<>>

StopArgs ==
    [command : {"Stop"},
     image : {None, <<"ubu">>, Web},
     ssh_port : {NoPort},
     https_port : {NoPort},
     foreground : {FALSE},
     list_running_vms : {FALSE}]

InitStop ==
    /\ InitMain
    /\ config \in [base_images_directory : {None},
                   global_qemu_options : {<<>>},
                   vms : {<<>>}]
    /\ args \in StopArgs
    /\ occupied = {}
    /\ unavailable \in {{}, {<<"kill">>}}
    /\ files \in FileSets
    /\ procs \in ProcessTables

Init == InitStart \/ InitStop

Next ==
    \/ LoadEnterVm
    \/ LoadAddGlobalOption
    \/ LoadEnsureNic
    \/ LoadForwardOption
    \/ LoadLeaveVm
    \/ LoadReturn
    \/ MainListRunningVms
    \/ RunCommandStartDefault
    \/ RunCommandStartSetup
    \/ RunCommandStartRun
    \/ RunCommandStopScan
    \/ RunCommandStopFind
    \/ RunCommandStopKill
    \/ MainReport
    \/ EnvBindPort
    \/ EnvProcessExits

Spec == Init /\ [][Next]_vars

(***************************************************************************)
(* Properties of the merge pass, checked under SpecLoad.                   *)
(***************************************************************************)
\* the positions of a VM's options whose text starts with "-nic"
nic_options(vm) == {j \in 1..Len(vm.options) : starts_with(vm.options[j], NIC)}

\* C1: after the merge pass of load_from_file every VM's option list holds at
\* most one option whose text starts with "-nic".
C1_AtMostOneNic ==
    pc = "loaded" =>
        \A i \in 1..Len(config.vms) : Cardinality(nic_options(config.vms[i])) <= 1

\* the part of a comma-separated piece of an option from "hostfwd" on
clause_of(piece) ==
    SubSeq(piece, CHOOSE i \in 1..Len(piece) : piece[i] = "hostfwd"
                                               /\ \A j \in 1..(i - 1) : piece[j] /= "hostfwd",
           Len(piece))

\* the forwarding clauses an option's text carries, in order
hostfwd_clauses(option) ==
    Let(SelectSeq(split(option, ","), LAMBDA piece : contains(piece, <<"hostfwd">>)),
        LAMBDA pieces : [k \in 1..Len(pieces) |-> clause_of(pieces[k])])

\* one clause per declared mapping, in the order of declaration
declared_clauses(vm) ==
    [k \in 1..Len(vm.port_mappings) |->
        forward_clause(vm.port_mappings[k].host_port, vm.port_mappings[k].vm_port)]

\* C2: after the merge pass a VM with a non-empty port_mappings list has exactly
\* one option starting with "-nic", and that option carries exactly one
\* hostfwd=tcp::HOST-:GUEST clause per declared mapping, in declaration order.
C2_OneClausePerMapping ==
    pc = "loaded" =>
        \A i \in 1..Len(config.vms) :
            config.vms[i].port_mappings /= <<>> =>
                /\ Cardinality(nic_options(config.vms[i])) = 1
                /\ \A j \in nic_options(config.vms[i]) :
                       hostfwd_clauses(config.vms[i].options[j])
                           = declared_clauses(config.vms[i])

\* C4: add_qemu_option, given an option starting with "-nic" and a list that
\* holds one already, replaces the text of one entry in its position and
\* leaves the length and every other entry as they were; any other option is
\* appended.
C4_CollisionRule ==
    [][LoadAddGlobalOption =>
          LET old    == config.vms[vm_idx].options
              new    == config'.vms[vm_idx].options
              option == config.global_qemu_options[opt_idx]
          IN  IF starts_with(option, NIC) /\ option_nic_present(old)
              THEN /\ Len(new) = Len(old)
                   /\ \E k \in 1..Len(old) :
                          /\ starts_with(old[k], NIC)
                          /\ new[k] = option
                          /\ \A j \in (1..Len(old)) \ {k} : new[j] = old[j]
              ELSE new = Append(old, option)]_vars

(***************************************************************************)
(* Property of find_open_port, checked under SpecPort.                     *)
(***************************************************************************)
\* C3: find_open_port(s) returns the lowest port p >= s that the probe reports
\* unoccupied: every port of [s, p) is reported occupied, p is reported free.
C3_LowestUnoccupied ==
    /\ pc \in {"find_open_port", "found"} =>
           \A p \in starting_port..(selected_port - 1) : is_port_in_use(p)
    /\ pc = "found" =>
           /\ ~is_port_in_use(selected_port)
           /\ find_open_port(starting_port) = selected_port

\* find_open_port has returned after passing over two occupied ports
C3_Witness == pc = "found" /\ selected_port = starting_port + 2

(***************************************************************************)
(* Properties of start and stop, checked under Spec.                       *)
(***************************************************************************)
\* C5: on the ad hoc path, a port the user specified that is reported occupied
\* makes start return the error for that port with no process spawned; start
\* returns a port error for no other reason, and a start that succeeds hands
\* the user's ports to the hypervisor unchanged.
C5_SpecifiedPortInUseFails ==
    (/\ pc = "report"
     /\ args.command = "Start"
     /\ runner.vm_config = <<>>
     /\ command_result \notin {"ErrNoImageProvided", "ErrNoUniqueImage"}) =>
        LET ssh_busy   == args.ssh_port /= NoPort /\ is_port_in_use(args.ssh_port)
            https_busy == args.https_port /= NoPort /\ is_port_in_use(args.https_port)
        IN  /\ (ssh_busy \/ https_busy) =>
                   /\ command_result \in {"ErrSshPortInUse", "ErrHttpsPortInUse"}
                   /\ spawned = <<>>
            /\ command_result = "ErrSshPortInUse" => ssh_busy
            /\ command_result = "ErrHttpsPortInUse" => https_busy
            /\ spawned /= <<>> =>
                   spawned[Len(spawned)] =
                       adhoc_nic_args(
                           IF args.ssh_port /= NoPort THEN args.ssh_port
                           ELSE runner.ssh_port,
                           IF args.https_port /= NoPort THEN args.https_port
                           ELSE runner.https_port)

\* an ad hoc start has failed on the HTTPS port the user gave, nothing spawned
C5_Witness ==
    /\ pc = "report"
    /\ runner.vm_config = <<>>
    /\ args.https_port /= NoPort
    /\ command_result = "ErrHttpsPortInUse"
    /\ spawned = <<>>

\* C6: a VM whose explicit mapping names an occupied host port is not started
\* with that port and reported as a success.
C6_ExplicitPortHonoured ==
    ~(/\ pc = "report"
      /\ command_result = "Ok"
      /\ runner.vm_config /= <<>>
      /\ \E k \in 1..Len(runner.vm_config[1].port_mappings) :
             LET pm == runner.vm_config[1].port_mappings[k]
             IN  /\ pm.explicit
                 /\ is_port_in_use(parse_usize(pm.host_port))
                 /\ \E a \in 1..Len(spawned) :
                        contains(spawned[a], forward_clause(pm.host_port, pm.vm_port)))

\* C8: a `ps ax` line made of the four leading columns and an argument vector
\* start handed to run_shell_command, without the nohup wrapper, is scanned
\* into one instance.
C8_LayoutMatchesBuilder ==
    spawned /= <<>> =>
        scan_entry(ps_line([pid |-> 200, argv |-> CommandLine(spawned)]), config).kind
            = "vm"

\* C10: stop returns Ok only when the signal was delivered; when `kill` exits
\* non-zero the command's result is an error.
C10_StopFailsWhenKillFails ==
    kill_status = 1 => command_result /= "Ok"

(***************************************************************************)
(* Properties of the scanner, checked under SpecScan.                      *)
(***************************************************************************)
\* the line of process p has the layout the scanner expects, with the SSH port
\* ssh and the HTTPS port https: token 7 is p.argv[4], token 21 is p.argv[18]
expected_layout(p, ssh, https) ==
    /\ contains(ps_line(p), QEMU)
    /\ Len(p.argv) >= 18
    /\ starts_with(p.argv[4], <<"file", "=">>)
    /\ p.argv[18] = adhoc_nic_args(ssh, https)

\* C7: every line with the expected layout yields exactly one instance, with
\* the PID of token 0, the two ports of token 21, and an image_name() that is
\* the file stem of the path of token 7, whatever the images directory holds.
C7_ScanYieldsInstance ==
    (pc = "dispatch" /\ args.list_running_vms /\ <<"ps">> \notin unavailable) =>
        \A i \in 1..Len(procs) : \A ssh, https \in PortUniverse :
            expected_layout(procs[i], ssh, https) =>
                /\ Cardinality({k \in 1..Len(running_vms) :
                                   running_vms[k].pid = procs[i].pid}) = 1
                /\ \A k \in 1..Len(running_vms) :
                       running_vms[k].pid = procs[i].pid =>
                           /\ running_vms[k].ssh_port = ssh
                           /\ running_vms[k].https_port = https
                           /\ image_name(running_vms[k])
                                  = file_stem(SubSeq(procs[i].argv[4], 3,
                                                     Len(procs[i].argv[4])))

\* the line of process p has a drive argument
has_drive_argument(p) ==
    \E a \in 1..Len(p.argv) : starts_with(p.argv[a], <<"file", "=">>)

\* C9: a line that names the hypervisor and has no drive argument is skipped:
\* the scan aborts only on a line that has one.
C9_NoDriveLineSkipped ==
    pc = "panic" =>
        \E i \in 1..Len(procs) :
            contains(ps_line(procs[i]), QEMU) /\ has_drive_argument(procs[i])

(***************************************************************************)
(* Properties of the stop command and of the exit status, under Spec.      *)
(***************************************************************************)
\* the instances of the scan of run_command_stop whose derived image name
\* contains the text asked for, by position
matching_vms == {i \in 1..Len(running_vms) :
                    contains(image_name(running_vms[i]), args.image)}

\* the first of them in scan order
first_match == CHOOSE i \in matching_vms : \A j \in matching_vms : i <= j

\* C11: run_command_stop signals no PID other than that of the first instance,
\* in scan order, whose derived image name contains the requested text: the
\* instance handed to stop is that one, and a `kill` that ran and exited 0 has
\* signalled exactly that PID, even when several instances match.
C11_StopsFirstMatch ==
    /\ pc = "stop_kill" =>
           matching_vms /= {} /\ target = running_vms[first_match]
    /\ signalled /= {} =>
           matching_vms /= {} /\ signalled = {running_vms[first_match].pid}
    /\ kill_status = 0 => signalled = {target.pid}

\* two instances match the text and the first of them alone was signalled
C11_Witness ==
    /\ pc = "report"
    /\ Cardinality(matching_vms) >= 2
    /\ signalled = {running_vms[first_match].pid}
    /\ \E i \in matching_vms : running_vms[i].pid \notin signalled

\* C12: a stop command whose scan finds no running instance sends no signal,
\* returns the error "No VMs running." whether or not an image name was given,
\* and the process exits 1; a process that exits after its command returned
\* exits 1 when the command returned an error and 0 when it returned Ok.
C12_ExitStatus ==
    /\ [](pc = "exit" => exit_code = IF command_result = "Ok" THEN 0 ELSE 1)
    /\ [](command_result = "ErrNoVMsRunning" =>
              /\ signalled = {}
              /\ kill_status = NotExited
              /\ exit_code \in {NotExited, 1})
    /\ [][(/\ pc = "dispatch"
           /\ args.command = "Stop"
           /\ get_list_of_running_vms(config) = [outcome |-> "ok", vms |-> <<>>]) =>
              (pc' = "report" /\ command_result' = "ErrNoVMsRunning")]_vars

\* a stop command that names an image has exited 1 on "No VMs running."
C12_Witness ==
    /\ pc = "exit"
    /\ args.command = "Stop"
    /\ args.image /= None
    /\ command_result = "ErrNoVMsRunning"
    /\ exit_code = 1
    /\ signalled = {}

(***************************************************************************)
(* Properties of the start command, under Spec.                            *)
(***************************************************************************)
\* the image files of the configured images directory whose name contains s
image_matches(s) ==
    {f \in files : f[1] = get_images_directory(config) /\ contains(file_stem(f[2]), s)}

\* C13: run_command_start goes on with an image path exactly when precisely
\* one image file of the configured images directory contains the text, the
\* path being that file in that directory; with no match or several it fails
\* with nothing spawned.
C13_UniqueMatchPath ==
    (args.command = "Start" /\ args.image /= None) =>
        /\ pc = "start_run" =>
               \E f \in image_matches(args.image) :
                   /\ image_matches(args.image) = {f}
                   /\ runner.image = f[1] \o <<"/">> \o f[2]
        /\ command_result = "ErrNoUniqueImage" =>
               /\ Cardinality(image_matches(args.image)) /= 1
               /\ spawned = <<>>

(***************************************************************************)
(* Further properties of the merge pass, under SpecLoad.                   *)
(***************************************************************************)
\* C14: after the merge pass no two entries of a VM's option list carry the
\* same text.
C14_NoDuplicateOption ==
    pc = "loaded" =>
        \A i \in 1..Len(config.vms) :
            \A j, k \in 1..Len(config.vms[i].options) :
                j /= k => config.vms[i].options[j] /= config.vms[i].options[k]

(***************************************************************************)
(* Properties of the argument vector of the VM-config path, under Spec.    *)
(***************************************************************************)
Directives == {<<"-daemonize">>, <<"-nographic">>}

\* the arguments of the vector spawned that follow the drive argument
after_drive(argv) ==
    SubSeq(argv, 1 + (CHOOSE a \in 1..Len(argv) : starts_with(argv[a], <<"file", "=">>)),
           Len(argv))

\* C15: the argument vector of the VM-config path holds exactly one of
\* -daemonize and -nographic, the one the daemonize flag asks for, and after
\* the drive argument come all the other tokens of the VM's options, in order.
C15_OneDaemonizeDirective ==
    (spawned /= <<>> /\ runner.vm_config /= <<>>) =>
        /\ Cardinality({a \in 1..Len(spawned) : spawned[a] \in Directives}) = 1
        /\ \A a \in 1..Len(spawned) :
               spawned[a] \in Directives =>
                   spawned[a] = IF runner.vm_config[1].daemonize
                                THEN <<"-daemonize">> ELSE <<"-nographic">>
        /\ after_drive(spawned) =
               SelectSeq(Concat([i \in 1..Len(runner.vm_config[1].options) |->
                                    get_opt_list(runner.vm_config[1].options[i])]),
                         LAMBDA token : token \notin Directives)

(***************************************************************************)
(* The check-then-act race on ports, under Spec.                           *)
(***************************************************************************)
\* C16: nothing is reserved between the probe and the spawn.  Selecting the
\* default ports leaves the state of the host's ports as it was, so that an
\* allocation made at that moment by another invocation returns the same
\* ports; and an ad hoc start whose ports were all selected by the allocator
\* probes none of them again: with its image on disk and the hypervisor
\* executable it returns Ok and spawns with the ports selected, bound or not.
C16_CheckThenAct ==
    /\ [][(RunCommandStartDefault /\ pc' = "start_setup") =>
              /\ occupied' = occupied
              /\ runner'.ssh_port = find_open_port(DEFAULT_SSH_PORT)
              /\ runner'.https_port = find_open_port(DEFAULT_HTTPS_PORT)]_vars
    /\ []((/\ pc = "report"
           /\ args.command = "Start"
           /\ runner.vm_config = <<>>
           /\ command_result \notin {"ErrNoImageProvided", "ErrNoUniqueImage"}
           /\ ~runner.specified_ssh_port
           /\ ~runner.specified_https_port
           /\ is_file(runner.image)
           /\ unavailable \cap {QEMU, NOHUP} = {}) =>
              /\ command_result = "Ok"
              /\ spawned /= <<>>
              /\ spawned[Len(spawned)] = adhoc_nic_args(runner.ssh_port, runner.https_port))

\* the port selected for SSH was bound by another process before the spawn, and
\* start has spawned the hypervisor with it and returned Ok
C16_Witness ==
    /\ pc = "report"
    /\ runner.vm_config = <<>>
    /\ ~runner.specified_ssh_port
    /\ runner.ssh_port \in occupied
    /\ ~(<<"lsof">> \in unavailable)
    /\ command_result = "Ok"
    /\ spawned /= <<>>
    /\ spawned[Len(spawned)] = adhoc_nic_args(runner.ssh_port, runner.https_port)

(***************************************************************************)
(* The forwarding step of the merge pass, under SpecLoad.                  *)
(***************************************************************************)
\* C17: for a VM without port mappings the forwarding step appends nothing:
\* no option of the merged list ends in a space or a comma, and no token of
\* its get_opt_list is the empty string.
C17_NothingAppended ==
    pc = "loaded" =>
        \A i \in 1..Len(config.vms) :
            config.vms[i].port_mappings = <<>> =>
                \A j \in 1..Len(config.vms[i].options) :
                    /\ config.vms[i].options[j][Len(config.vms[i].options[j])]
                           \notin {" ", ","}
                    /\ \A t \in 1..Len(get_opt_list(config.vms[i].options[j])) :
                           get_opt_list(config.vms[i].options[j])[t] /= <<>>

(***************************************************************************)
(* Termination of find_open_port, under SpecPortFair.                      *)
(***************************************************************************)
\* C18: whenever a port at or above the starting port is unbound on the host,
\* find_open_port eventually returns, whether or not the probe command can be
\* executed.
C18_Terminates ==
    (\E p \in starting_port..(starting_port + MaxProbes - 1) : p \notin occupied)
        ~> (pc = "found")

(***************************************************************************)
(* Host ports of one VM, under SpecLoad.                                   *)
(***************************************************************************)
\* C19: after the merge pass the host ports of the port mappings of one VM,
\* as they stand in its forwarding clauses, are pairwise distinct.
C19_DistinctHostPorts ==
    pc = "loaded" =>
        \A i \in 1..Len(config.vms) :
            \A j, k \in 1..Len(config.vms[i].port_mappings) :
                j /= k => parse_usize(config.vms[i].port_mappings[j].host_port)
                              /= parse_usize(config.vms[i].port_mappings[k].host_port)

(***************************************************************************)
(* The image started from a VM configuration, under Spec.                  *)
(***************************************************************************)
\* C20: when the text given to start matches exactly one image file, which
\* run_command_start has resolved, and a VM configuration is chosen for it,
\* start does not fail to resolve the image, and the drive argument of the
\* vector spawned names that image file.
C20_StartsMatchedImage ==
    (/\ pc = "report"
     /\ args.command = "Start"
     /\ args.image /= None
     /\ runner.vm_config /= <<>>
     /\ \E f \in image_matches(args.image) :
            /\ image_matches(args.image) = {f}
            /\ runner.image = f[1] \o <<"/">> \o f[2]) =>
        /\ command_result /= "ErrImageNotFound"
        /\ spawned /= <<>> =>
               \E a \in 1..Len(spawned) : spawned[a] = <<"file", "=">> \o runner.image

====
